---- MODULE Spec2Model ----
(***************************************************************************)
(* Chunked-upload server of zanvi-git/bkup (src/server/app.py).            *)
(*                                                                         *)
(* The state is what the server keeps between requests: the chunk          *)
(* workspace on disk (.chunks/<user>/<file_id>/{metadata.json,             *)
(* chunk_<i>.part}), the finished files (uploads/<user>/<category>/<name>),*)
(* the used_bytes column of each User row, and the wall clock.  Each       *)
(* route handler is one action; the handler of /upload/chunked is also     *)
(* given step by step (SpecConc) for the claims about concurrent uploads.  *)
(***************************************************************************)
EXTENDS Integers, Sequences, FiniteSets, TLC

(***************************************************************************)
(* Bounds of the model.                                                    *)
(***************************************************************************)
MaxChunks == 2        \* largest total_chunks a request declares
MaxChunkSize == 2     \* largest chunk payload, in bytes
MaxQuota == 3         \* largest quota_bytes of a User row
MaxTicks == 2         \* how often the clock advances
MaxRequests == 3      \* how many requests the workers of SpecConc take up

(***************************************************************************)
(* Program constants.                                                      *)
(***************************************************************************)
CHUNK_RETENTION_HOURS == 24
\* the model's clock moves in steps of one retention window
TickSeconds == CHUNK_RETENTION_HOURS * 3600

\* register takes every string not yet taken as a username
Usernames == {"alice", "bob", "../alice"}
FileIds == {"s1", "../s2"}
Filenames == {"../a.txt"}
CategoryNames == {"general"}
Workers == {"w1", "w2"}

\* werkzeug's secure_filename on the names of the model: path separators
\* become blanks, blanks become "_", leading dots and underscores go.
SecureFilename(name) ==
    CASE name = "../s2" -> "s2"
      [] name = "../alice" -> "alice"
      [] name = "../a.txt" -> "a.txt"
      [] OTHER -> name

UserDirs == {SecureFilename(u) : u \in Usernames}
ChunkDirs == {SecureFilename(f) : f \in FileIds}

\* A chunk payload of n bytes; payloads of different sizes differ in every byte.
Payload(n) == [i \in 1..n |-> n]
Payloads == {Payload(n) : n \in 1..MaxChunkSize}

\* hashlib.sha256(data).hexdigest(): one lower-case digest per payload.
Sha256Hex(data) == [of |-> data, hexcase |-> "lower"]
\* The digests a client may declare: the right one, and the right one written
\* in upper case, which is another string.
Checksums(chunk_data) ==
    {Sha256Hex(chunk_data), [of |-> chunk_data, hexcase |-> "upper"]}

\* The quota_bytes a User row may have: the smallest quota and the largest.
Quotas == {1, MaxQuota}

VARIABLES
    quota_bytes,  \* User.quota_bytes of each username
    used_bytes,   \* User.used_bytes of each username
    workspace,    \* [user dir -> [existing chunk dir -> [meta, chunks]]]
    uploads,      \* [user dir -> [<<category, filename>> of a finished file -> content]]
    now,          \* time.time()
    req,          \* each worker's position in save_chunk
    taken,        \* the number of requests the workers have taken up
    resp,         \* the last response sent
    client        \* the position of ChunkedUploadClient.upload_file

vars == <<quota_bytes, used_bytes, workspace, uploads, now, req, taken, resp, client>>

(***************************************************************************)
(* Files and directories.  A directory is a function from the names it     *)
(* holds; a missing file is a name outside its DOMAIN.                     *)
(***************************************************************************)
EmptyDir == [x \in {} |-> <<>>]
Put(f, k, v) == [x \in DOMAIN f \cup {k} |-> IF x = k THEN v ELSE f[x]]
Drop(f, K) == [x \in DOMAIN f \ K |-> f[x]]

\* A fresh chunk directory: no metadata.json, no chunk_<i>.part.
NewChunkDir == [meta |-> <<>>, chunks |-> EmptyDir]

\* get_chunk_directory: os.makedirs(chunk_dir, exist_ok=True) on the
\* workspace wsu of one user.
get_chunk_directory(wsu, d) ==
    IF d \in DOMAIN wsu THEN wsu ELSE Put(wsu, d, NewChunkDir)

\* load_chunk_metadata, after its get_chunk_directory: <<>> is None.
load_chunk_metadata(wsu, d) == get_chunk_directory(wsu, d)[d].meta

\* save_chunk_metadata: the metadata.json of the first request.
save_chunk_metadata(wsu, d, filename, category, total_chunks, username, t) ==
    LET ws1 == get_chunk_directory(wsu, d)
        m == [filename |-> filename, category |-> category,
              total_chunks |-> total_chunks, upload_start_time |-> t,
              username |-> username]
    IN  [ws1 EXCEPT ![d].meta = <<m>>]

\* sorted(chunks): the ascending list of a set of indices.
RECURSIVE Sorted(_)
Sorted(S) ==
    IF S = {} THEN <<>>
    ELSE LET m == CHOOSE x \in S : \A y \in S : x <= y
         IN  <<m>> \o Sorted(S \ {m})

\* a get_received_chunks that returns the indices in descending order
get_received_chunks_descending(wsu, d) ==
    LET asc == Sorted(DOMAIN get_chunk_directory(wsu, d)[d].chunks)
    IN  [k \in 1..Len(asc) |-> asc[Len(asc) + 1 - k]]

\* get_received_chunks: the indices of the chunk_<i>.part files, ascending.
get_received_chunks(wsu, d) ==
    Sorted(DOMAIN get_chunk_directory(wsu, d)[d].chunks)

\* list(range(n))
Range(n) == [i \in 1..n |-> i - 1]

\* The size of all chunk files of a chunk directory.
RECURSIVE SumSizes(_, _)
SumSizes(chunks, S) ==
    IF S = {} THEN 0
    ELSE LET i == CHOOSE x \in S : TRUE
         IN  Len(chunks[i]) + SumSizes(chunks, S \ {i})
ChunkBytes(sess) == SumSizes(sess.chunks, DOMAIN sess.chunks)

(***************************************************************************)
(* save_chunk (app.py 91-115).                                             *)
(***************************************************************************)
\* a checksum gate that lets every chunk through
ChecksumNeverMismatch(chunk_data, expected_checksum) ==
    FALSE

ChecksumMismatch(chunk_data, expected_checksum) ==
    Sha256Hex(chunk_data) # expected_checksum

\* a quota check that compares the bytes already used only
QuotaExceededUsedOnly(used, chunk_data, quota) ==
    used > quota

QuotaExceeded(used, chunk_data, quota) ==
    used + Len(chunk_data) > quota

\* a save_chunk that never takes the size of the old chunk file off
StoredSizeIgnored(wsu, d, chunk_index) == 0

\* the size already stored at chunk_path, 0 when there is no such file
StoredSize(wsu, d, chunk_index) ==
    IF d \in DOMAIN wsu /\ chunk_index \in DOMAIN wsu[d].chunks
    THEN Len(wsu[d].chunks[chunk_index]) ELSE 0

\* a save_chunk that writes the chunk file before it checks the quota
save_chunk_write_first(wsu, used, quota, d, chunk_index, chunk_data, expected_checksum) ==
    IF ChecksumMismatch(chunk_data, expected_checksum)
    THEN [ok |-> FALSE, result |-> "Checksum mismatch", ws |-> wsu, used |-> used,
          replaced |-> 0]
    ELSE LET ws1 == get_chunk_directory(wsu, d)
             old == StoredSize(ws1, d, chunk_index)
             ws2 == [ws1 EXCEPT ![d].chunks = Put(@, chunk_index, chunk_data)]
         IN  IF QuotaExceeded(used, chunk_data, quota)
             THEN [ok |-> FALSE, result |-> "Quota exceeded", ws |-> ws2, used |-> used,
                   replaced |-> 0]
             ELSE [ok |-> TRUE, result |-> "ok", ws |-> ws2,
                   used |-> (used - old) + Len(chunk_data), replaced |-> old]

\* save_chunk as one call: [ok, result] is what it returns, [ws, used] what
\* it leaves on disk and in the User row, replaced the size of the chunk file
\* it overwrote.
save_chunk(wsu, used, quota, d, chunk_index, chunk_data, expected_checksum) ==
    IF ChecksumMismatch(chunk_data, expected_checksum)
    THEN [ok |-> FALSE, result |-> "Checksum mismatch", ws |-> wsu, used |-> used,
          replaced |-> 0]
    ELSE IF QuotaExceeded(used, chunk_data, quota)
    THEN [ok |-> FALSE, result |-> "Quota exceeded", ws |-> wsu, used |-> used,
          replaced |-> 0]
    ELSE LET ws1 == get_chunk_directory(wsu, d)
             old == StoredSize(ws1, d, chunk_index)
         IN  [ok |-> TRUE, result |-> "ok",
              ws |-> [ws1 EXCEPT ![d].chunks = Put(@, chunk_index, chunk_data)],
              used |-> (used - old) + Len(chunk_data), replaced |-> old]

(***************************************************************************)
(* Responses: the operation, the caller, the HTTP status and the "error"   *)
(* of the JSON body.  The rest of a body is a function of the state the    *)
(* handler leaves (chunk_ack, status_body, below).  "replaced" is not sent: *)
(* it records the size of the chunk file an accepted chunk overwrote.      *)
(* "count" is the count of the cleanup response; "prior" is not sent: it   *)
(* is the count of the response before when that was a cleanup response    *)
(* too, and -1 otherwise.                                                  *)
(***************************************************************************)
Response(op, user, code, error) ==
    [op |-> op, user |-> user, code |-> code, error |-> error, replaced |-> 0,
     count |-> 0, prior |-> -1]

Idle == [pc |-> "idle"]

Init ==
    /\ quota_bytes \in {q \in [Usernames -> Quotas] : q["bob"] = 1 /\ q["../alice"] = MaxQuota}
    /\ used_bytes = [u \in Usernames |-> 0]
    /\ workspace = [ud \in UserDirs |-> EmptyDir]
    /\ uploads = [ud \in UserDirs |-> EmptyDir]
    /\ now = 0
    /\ req = [w \in Workers |-> Idle]
    /\ taken = 0
    /\ resp = Response("none", "", 0, "")
    /\ client = [pc |-> "idle"]

(***************************************************************************)
(* POST /upload/chunked as one step (app.py 235-279).                      *)
(***************************************************************************)
InvalidIndex(chunk_index, total_chunks) ==
    chunk_index < 0 \/ chunk_index >= total_chunks

\* the workspace after "metadata = load_chunk_metadata(..); if metadata is
\* None: save_chunk_metadata(..)"
ensure_metadata(wsu, d, filename, category, total_chunks, username, t) ==
    LET ws0 == get_chunk_directory(wsu, d)
    IN  IF load_chunk_metadata(ws0, d) = <<>>
        THEN save_chunk_metadata(ws0, d, filename, category, total_chunks,
                                 username, t)
        ELSE ws0

\* the body of the 200 response: received_chunks and complete
chunk_ack(wsu, d, total_chunks) ==
    LET received_chunks == get_received_chunks(wsu, d)
    IN  [received_chunks |-> received_chunks,
         complete |-> (Len(received_chunks) = total_chunks)]

\* [workspace, used_bytes, resp]: what the handler leaves on disk and in the
\* user's row, and what it answers
upload_chunk_outcome(username, file_id, filename, category, chunk_index, total_chunks, chunk_data, checksum) ==
    LET ud == SecureFilename(username)
        d == SecureFilename(file_id)
    IN
    IF InvalidIndex(chunk_index, total_chunks)
    THEN [workspace |-> workspace, used_bytes |-> used_bytes,
          resp |-> Response("chunk", username, 400, "Invalid chunk_index")]
    ELSE
        LET ws1 == ensure_metadata(workspace[ud], d, filename, category,
                                   total_chunks, username, now)
            r == save_chunk(ws1, used_bytes[username], quota_bytes[username],
                            d, chunk_index, chunk_data, checksum)
        IN  [workspace |-> [workspace EXCEPT ![ud] = r.ws],
             used_bytes |-> [used_bytes EXCEPT ![username] = r.used],
             resp |-> IF r.ok
                      THEN [Response("chunk", username, 200, "") EXCEPT
                               !.replaced = r.replaced]
                      ELSE Response("chunk", username, 400, r.result)]

upload_chunk(username, file_id, filename, category, chunk_index, total_chunks, chunk_data, checksum) ==
    LET o == upload_chunk_outcome(username, file_id, filename, category,
                                  chunk_index, total_chunks, chunk_data, checksum)
    IN  /\ workspace' = o.workspace
        /\ used_bytes' = o.used_bytes
        /\ resp' = o.resp
        /\ UNCHANGED <<quota_bytes, uploads, now, req, taken, client>>

UploadChunk(users, file_ids) ==
    \E username \in users, file_id \in file_ids, filename \in Filenames,
       category \in CategoryNames, chunk_index \in 0..(MaxChunks - 1),
       total_chunks \in 1..MaxChunks, chunk_data \in Payloads :
      \E checksum \in Checksums(chunk_data) :
        upload_chunk(username, file_id, filename, category, chunk_index,
                     total_chunks, chunk_data, checksum)

(***************************************************************************)
(* GET /upload/status/<file_id> (app.py 281-304).                          *)
(***************************************************************************)
\* the JSON body of the status response
\* a status that takes the chunk directory, not its metadata, for the session
status_body_by_directory(wsu, d) ==
    IF d \notin DOMAIN wsu
    THEN [exists |-> FALSE, received_chunks |-> <<>>, total_chunks |-> 0,
          complete |-> FALSE]
    ELSE [exists |-> TRUE, received_chunks |-> get_received_chunks(wsu, d),
          total_chunks |-> 0, complete |-> FALSE]

status_body(wsu, d) ==
    LET ws0 == get_chunk_directory(wsu, d)
        metadata == load_chunk_metadata(ws0, d)
        received_chunks == get_received_chunks(ws0, d)
    IN  IF metadata = <<>>
        THEN [exists |-> FALSE, received_chunks |-> <<>>, total_chunks |-> 0,
              complete |-> FALSE]
        ELSE [exists |-> TRUE, received_chunks |-> received_chunks,
              total_chunks |-> metadata[1].total_chunks,
              complete |-> (Len(received_chunks) = metadata[1].total_chunks)]

upload_status(username, file_id) ==
    LET ud == SecureFilename(username)
        d == SecureFilename(file_id)
    IN  /\ workspace' = [workspace EXCEPT ![ud] = get_chunk_directory(@, d)]
        /\ resp' = Response("status", username, 200,
                            IF status_body(workspace[ud], d).exists
                            THEN "" ELSE "exists: false")
        /\ UNCHANGED <<quota_bytes, used_bytes, uploads, now, req, taken, client>>

UploadStatus(users, file_ids) ==
    \E username \in users, file_id \in file_ids :
        upload_status(username, file_id)

(***************************************************************************)
(* merge_chunks (app.py 133-157) and POST /upload/merge/<file_id>          *)
(* (app.py 306-332).                                                       *)
(***************************************************************************)
\* the chunks copied from the last index down to the first
RECURSIVE ConcatDescending(_, _)
ConcatDescending(chunks, n) ==
    IF n = 0 THEN <<>> ELSE chunks[n - 1] \o ConcatDescending(chunks, n - 1)

\* the bytes of chunk_0.part .. chunk_<n-1>.part, copied in this order
RECURSIVE Concat(_, _)
Concat(chunks, n) ==
    IF n = 0 THEN <<>> ELSE Concat(chunks, n - 1) \o chunks[n - 1]

\* a completeness test that looks for missing indices only
ChunksCompleteNoneMissing(received_chunks, total_chunks) ==
    \A i \in 0..(total_chunks - 1) :
        \E k \in 1..Len(received_chunks) : received_chunks[k] = i

\* "received_chunks != expected_chunks" is false
ChunksComplete(received_chunks, total_chunks) ==
    received_chunks = Range(total_chunks)

\* a cleanup that removes the chunk files and leaves metadata.json
rmtree_chunks_only(wsu, d) == [wsu EXCEPT ![d].chunks = EmptyDir]

\* shutil.rmtree(chunk_dir)
rmtree(wsu, d) == Drop(wsu, {d})

\* a merge_chunks that opens the final file before it looks at the chunks
merge_chunks_open_first(wsu, files, d, total_chunks, final_filename, category) ==
    LET ws0 == get_chunk_directory(wsu, d)
        received_chunks == get_received_chunks(ws0, d)
        final_path == <<SecureFilename(category), SecureFilename(final_filename)>>
    IN  IF ~ChunksComplete(received_chunks, total_chunks)
        THEN [ok |-> FALSE,
              missing |-> Sorted((0..(total_chunks - 1)) \ DOMAIN ws0[d].chunks),
              ws |-> ws0, files |-> Put(files, final_path, <<>>),
              path |-> final_path]
        ELSE [ok |-> TRUE, missing |-> <<>>,
              ws |-> rmtree(ws0, d),
              files |-> Put(files, final_path, Concat(ws0[d].chunks, total_chunks)),
              path |-> final_path]

\* [ok, missing, ws, files, path]: what merge_chunks returns and leaves on disk
merge_chunks(wsu, files, d, total_chunks, final_filename, category) ==
    LET ws0 == get_chunk_directory(wsu, d)
        received_chunks == get_received_chunks(ws0, d)
        final_path == <<SecureFilename(category), SecureFilename(final_filename)>>
    IN  IF ~ChunksComplete(received_chunks, total_chunks)
        THEN [ok |-> FALSE,
              missing |-> Sorted((0..(total_chunks - 1)) \ DOMAIN ws0[d].chunks),
              ws |-> ws0, files |-> files, path |-> final_path]
        ELSE [ok |-> TRUE, missing |-> <<>>,
              ws |-> rmtree(ws0, d),
              files |-> Put(files, final_path, Concat(ws0[d].chunks, total_chunks)),
              path |-> final_path]

\* a merge that charges the final file to the quota once more
merge_upload_outcome_recharge(username, file_id) ==
    LET ud == SecureFilename(username)
        d == SecureFilename(file_id)
        ws0 == get_chunk_directory(workspace[ud], d)
        metadata == load_chunk_metadata(ws0, d)
    IN  IF metadata = <<>>
        THEN [workspace |-> [workspace EXCEPT ![ud] = ws0],
              uploads |-> uploads, used_bytes |-> used_bytes,
              resp |-> Response("merge", username, 404, "Upload not found")]
        ELSE
            LET r == merge_chunks(ws0, uploads[ud], d, metadata[1].total_chunks,
                                  metadata[1].filename, metadata[1].category)
            IN  [workspace |-> [workspace EXCEPT ![ud] = r.ws],
                 uploads |-> [uploads EXCEPT ![ud] = r.files],
                 used_bytes |-> [used_bytes EXCEPT ![username] =
                                    IF r.ok THEN @ + Len(r.files[r.path]) ELSE @],
                 resp |-> IF r.ok
                          THEN Response("merge", username, 201, "")
                          ELSE Response("merge", username, 400, "Missing chunks")]

\* [workspace, uploads, used_bytes, resp]: what the handler leaves on disk and
\* in the user's row, and what it answers; missing is the list in the error
\* of a 400
merge_upload_outcome(username, file_id) ==
    LET ud == SecureFilename(username)
        d == SecureFilename(file_id)
        ws0 == get_chunk_directory(workspace[ud], d)
        metadata == load_chunk_metadata(ws0, d)
    IN  IF metadata = <<>>
        THEN [workspace |-> [workspace EXCEPT ![ud] = ws0],
              uploads |-> uploads, used_bytes |-> used_bytes,
              resp |-> Response("merge", username, 404, "Upload not found"),
              missing |-> <<>>]
        ELSE
            LET r == merge_chunks(ws0, uploads[ud], d, metadata[1].total_chunks,
                                  metadata[1].filename, metadata[1].category)
            IN  [workspace |-> [workspace EXCEPT ![ud] = r.ws],
                 uploads |-> [uploads EXCEPT ![ud] = r.files],
                 used_bytes |-> used_bytes,
                 resp |-> IF r.ok
                          THEN Response("merge", username, 201, "")
                          ELSE Response("merge", username, 400, "Missing chunks"),
                 missing |-> r.missing]

merge_upload(username, file_id) ==
    LET o == merge_upload_outcome(username, file_id)
    IN  /\ workspace' = o.workspace
        /\ uploads' = o.uploads
        /\ used_bytes' = o.used_bytes
        /\ resp' = o.resp
        /\ UNCHANGED <<quota_bytes, now, req, taken, client>>

MergeUpload(users, file_ids) ==
    \E username \in users, file_id \in file_ids :
        merge_upload(username, file_id)

(***************************************************************************)
(* cleanup_old_chunks (app.py 159-187) and POST /upload/cleanup.           *)
(***************************************************************************)
retention_seconds == CHUNK_RETENTION_HOURS * 3600

\* the chunk directories of one user the sweep removes at current_time; the
\* first takes a session for stale when its age is the window exactly
StaleDirsAtWindow(wsu, current_time) ==
    {d \in DOMAIN wsu :
        /\ wsu[d].meta # <<>>
        /\ current_time - wsu[d].meta[1].upload_start_time >= retention_seconds}

StaleDirs(wsu, current_time) ==
    {d \in DOMAIN wsu :
        /\ wsu[d].meta # <<>>
        /\ current_time - wsu[d].meta[1].upload_start_time > retention_seconds}

RECURSIVE SumCard(_, _)
SumCard(f, S) ==
    IF S = {} THEN 0
    ELSE LET x == CHOOSE y \in S : TRUE
         IN  Cardinality(f[x]) + SumCard(f, S \ {x})

\* cleaned_count
cleaned_count(ws, current_time) ==
    SumCard([ud \in UserDirs |-> StaleDirs(ws[ud], current_time)], UserDirs)

\* a sweep that counts the stale sessions and removes none
cleanup_old_chunks_count_only(ws, current_time) == ws

cleanup_old_chunks(ws, current_time) ==
    [ud \in UserDirs |-> Drop(ws[ud], StaleDirs(ws[ud], current_time))]

cleanup_chunks(username) ==
    /\ workspace' = cleanup_old_chunks(workspace, now)
    /\ resp' = [Response("cleanup", username, 200,
                         IF cleaned_count(workspace, now) = 0 THEN "count: 0" ELSE "")
                    EXCEPT !.count = cleaned_count(workspace, now),
                           !.prior = IF resp.op = "cleanup" THEN resp.count ELSE -1]
    /\ UNCHANGED <<quota_bytes, used_bytes, uploads, now, req, taken, client>>

CleanupChunks(users) ==
    \E username \in users : cleanup_chunks(username)

(***************************************************************************)
(* DELETE /delete/<category>/<filename> (app.py 429-453).                  *)
(***************************************************************************)
Max(a, b) == IF a >= b THEN a ELSE b

\* a delete that removes the file and keeps its charge
delete_file_keeps_charge(username, category, filename) ==
    LET ud == SecureFilename(username)
        filepath == <<SecureFilename(category), SecureFilename(filename)>>
    IN  IF filepath \notin DOMAIN uploads[ud]
        THEN /\ resp' = Response("delete", username, 404, "File not found")
             /\ UNCHANGED <<quota_bytes, used_bytes, workspace, uploads, now, req, taken, client>>
        ELSE /\ uploads' = [uploads EXCEPT ![ud] = Drop(@, {filepath})]
             /\ resp' = Response("delete", username, 200, "")
             /\ UNCHANGED <<quota_bytes, used_bytes, workspace, now, req, taken, client>>

delete_file(username, category, filename) ==
    LET ud == SecureFilename(username)
        filepath == <<SecureFilename(category), SecureFilename(filename)>>
    IN  IF filepath \notin DOMAIN uploads[ud]
        THEN /\ resp' = Response("delete", username, 404, "File not found")
             /\ UNCHANGED <<quota_bytes, used_bytes, workspace, uploads, now, req, taken, client>>
        ELSE /\ uploads' = [uploads EXCEPT ![ud] = Drop(@, {filepath})]
             /\ used_bytes' = [used_bytes EXCEPT ![username] =
                                  Max(0, @ - Len(uploads[ud][filepath]))]
             /\ resp' = Response("delete", username, 200, "")
             /\ UNCHANGED <<quota_bytes, workspace, now, req, taken, client>>

DeleteFile(users) ==
    \E username \in users, category \in CategoryNames, filename \in Filenames :
        delete_file(username, category, filename)

(***************************************************************************)
(* The clock.                                                              *)
(***************************************************************************)
Tick ==
    /\ now < MaxTicks * TickSeconds
    /\ now' = now + TickSeconds
    /\ resp' = Response("tick", "", 0, "")
    /\ UNCHANGED <<quota_bytes, used_bytes, workspace, uploads, req, taken, client>>

(***************************************************************************)
(* Spec: the requests of one user to one upload session, each handled      *)
(* before the next arrives.                                                *)
(***************************************************************************)
\* the user who sends the requests, and the file id of the session
Clients == {"alice"}
Sessions == {"../s2"}

Next ==
    \/ UploadChunk(Clients, Sessions)
    \/ UploadStatus(Clients, Sessions)
    \/ MergeUpload(Clients, Sessions)
    \/ CleanupChunks(Clients)
    \/ DeleteFile(Clients)
    \/ Tick

Spec == Init /\ [][Next]_vars

(***************************************************************************)
(* POST /upload/chunked step by step: what another request can see of a    *)
(* running one.  A worker runs one request at a time; the steps are the    *)
(* reads and writes of the shared state in upload_chunk and save_chunk.    *)
(*   begin   app.py 256-262: index check, the metadata file is looked for  *)
(*   meta    app.py 262-263 and 92-95: the metadata is written when none   *)
(*           was found at "begin"; the checksum is compared                *)
(*   query   app.py 98-100:  the User row is read, the quota is checked    *)
(*   stat    app.py 102-107: the size of an existing chunk file is taken   *)
(*   write   app.py 109-110: the chunk file is written                     *)
(*   commit  app.py 112-113: used_bytes of the row read at "query", as     *)
(*           changed by this request, is written back                      *)
(***************************************************************************)
Running(pc, username, d, chunk_index, chunk_data, used) ==
    [pc |-> pc, username |-> username, dir |-> d, chunk_index |-> chunk_index,
     chunk_data |-> chunk_data, used |-> used]

\* a request between load_chunk_metadata and save_chunk_metadata: found is
\* "metadata is not None"
Loaded(username, d, filename, category, chunk_index, total_chunks, chunk_data, checksum, found) ==
    [pc |-> "meta", username |-> username, dir |-> d, filename |-> filename,
     category |-> category, chunk_index |-> chunk_index,
     total_chunks |-> total_chunks, chunk_data |-> chunk_data,
     checksum |-> checksum, found |-> found]

chunk_begin(w, username, file_id, filename, category, chunk_index, total_chunks, chunk_data, checksum) ==
    LET ud == SecureFilename(username)
        d == SecureFilename(file_id)
    IN  /\ req[w].pc = "idle"
        /\ taken < MaxRequests
        /\ taken' = taken + 1
        /\ ~InvalidIndex(chunk_index, total_chunks)
        /\ workspace' = [workspace EXCEPT ![ud] = get_chunk_directory(@, d)]
        /\ req' = [req EXCEPT ![w] =
                      Loaded(username, d, filename, category, chunk_index,
                             total_chunks, chunk_data, checksum,
                             load_chunk_metadata(workspace[ud], d) # <<>>)]
        /\ UNCHANGED <<quota_bytes, used_bytes, uploads, now, resp, client>>

chunk_meta(w) ==
    LET r == req[w]
        ud == SecureFilename(r.username)
    IN  /\ r.pc = "meta"
        /\ workspace' = IF r.found THEN workspace
                        ELSE [workspace EXCEPT ![ud] =
                                 save_chunk_metadata(@, r.dir, r.filename,
                                                     r.category, r.total_chunks,
                                                     r.username, now)]
        /\ req' = [req EXCEPT ![w] =
                      IF ChecksumMismatch(r.chunk_data, r.checksum)
                      THEN Idle
                      ELSE Running("query", r.username, r.dir, r.chunk_index,
                                   r.chunk_data, 0)]
        /\ UNCHANGED <<quota_bytes, used_bytes, uploads, now, taken, resp, client>>

chunk_query(w) ==
    LET r == req[w]
    IN  /\ r.pc = "query"
        /\ req' = [req EXCEPT ![w] =
                      IF QuotaExceeded(used_bytes[r.username], r.chunk_data,
                                       quota_bytes[r.username])
                      THEN Idle
                      ELSE [r EXCEPT !.pc = "stat", !.used = used_bytes[r.username]]]
        /\ UNCHANGED <<quota_bytes, used_bytes, workspace, uploads, now, taken, resp, client>>

chunk_stat(w) ==
    LET r == req[w]
        ud == SecureFilename(r.username)
        ws1 == get_chunk_directory(workspace[ud], r.dir)
    IN  /\ r.pc = "stat"
        /\ workspace' = [workspace EXCEPT ![ud] = ws1]
        /\ req' = [req EXCEPT ![w] =
                      [r EXCEPT !.pc = "write",
                                !.used = @ - StoredSize(ws1, r.dir, r.chunk_index)]]
        /\ UNCHANGED <<quota_bytes, used_bytes, uploads, now, taken, resp, client>>

\* open(chunk_path, 'wb') raises when the chunk directory is gone: the
\* request ends with a 500 and nothing is committed.
chunk_write(w) ==
    LET r == req[w]
        ud == SecureFilename(r.username)
    IN  /\ r.pc = "write"
        /\ IF r.dir \in DOMAIN workspace[ud]
           THEN /\ workspace' = [workspace EXCEPT ![ud][r.dir].chunks =
                                    Put(@, r.chunk_index, r.chunk_data)]
                /\ req' = [req EXCEPT ![w] = [r EXCEPT !.pc = "commit"]]
           ELSE /\ req' = [req EXCEPT ![w] = Idle]
                /\ UNCHANGED workspace
        /\ UNCHANGED <<quota_bytes, used_bytes, uploads, now, taken, resp, client>>

chunk_commit(w) ==
    LET r == req[w]
    IN  /\ r.pc = "commit"
        /\ used_bytes' = [used_bytes EXCEPT ![r.username] = r.used + Len(r.chunk_data)]
        /\ req' = [req EXCEPT ![w] = Idle]
        /\ UNCHANGED <<quota_bytes, workspace, uploads, now, taken, resp, client>>

\* The concurrent requests declare the digest of their bytes: a request with
\* another checksum ends in chunk_meta, before it reads used_bytes or a chunk
\* file.
ChunkBegin(users, file_ids) ==
    \E w \in Workers, username \in users, file_id \in file_ids,
       filename \in Filenames, category \in CategoryNames,
       chunk_index \in 0..(MaxChunks - 1), total_chunks \in 1..MaxChunks,
       chunk_data \in Payloads :
        chunk_begin(w, username, file_id, filename, category, chunk_index,
                    total_chunks, chunk_data, Sha256Hex(chunk_data))

ChunkMeta == \E w \in Workers : chunk_meta(w)
ChunkQuery == \E w \in Workers : chunk_query(w)
ChunkStat == \E w \in Workers : chunk_stat(w)
ChunkWrite == \E w \in Workers : chunk_write(w)
ChunkCommit == \E w \in Workers : chunk_commit(w)

(***************************************************************************)
(* SpecConc: two chunk uploads of one user in flight at once.              *)
(***************************************************************************)
NextConc ==
    \/ ChunkBegin(Clients, Sessions)
    \/ ChunkMeta
    \/ ChunkQuery
    \/ ChunkStat
    \/ ChunkWrite
    \/ ChunkCommit

SpecConc == Init /\ [][NextConc]_vars

(***************************************************************************)
(* SpecRetire: the chunk uploads of SpecConc next to merges of the same    *)
(* session.  merge_upload runs between any two steps of an upload.         *)
(***************************************************************************)
NextRetire ==
    \/ NextConc
    \/ MergeUpload(Clients, Sessions)

SpecRetire == Init /\ [][NextRetire]_vars

(***************************************************************************)
(* cleanup_old_chunks step by step (app.py 159-187): what a merge can do   *)
(* between two looks of the sweep at the disk.  A worker runs the sweep.   *)
(*   begin   app.py 163-167: current_time is taken, the user folders are   *)
(*           listed                                                        *)
(*   user    app.py 167-172: the chunk directories of the next user folder *)
(*           are listed                                                    *)
(*   dir     app.py 172-178: os.path.isdir and os.path.exists of the       *)
(*           metadata file of the next chunk directory                     *)
(*   open    app.py 179-183: the metadata file is opened and read, its age *)
(*           is compared; open raises when the file is gone                *)
(*   rmtree  app.py 184-185: shutil.rmtree raises when the directory is    *)
(*           gone                                                          *)
(*   end     app.py 187 and 337-341: the count is answered                 *)
(* An exception leaves cleanup_chunks: the request ends with a 500.        *)
(***************************************************************************)
Sweeping(pc, username, current_time, users, ud, listed, d, count) ==
    [pc |-> pc, username |-> username, current_time |-> current_time,
     users |-> users, ud |-> ud, listed |-> listed, d |-> d, count |-> count]

sweep_begin(w, username) ==
    /\ req[w].pc = "idle"
    /\ req' = [req EXCEPT ![w] =
                  Sweeping("user", username, now, UserDirs, "", {}, "", 0)]
    /\ UNCHANGED <<quota_bytes, used_bytes, workspace, uploads, now, taken, resp, client>>

sweep_user(w) ==
    LET r == req[w]
    IN  /\ r.pc = "user"
        /\ \E ud \in r.users :
              req' = [req EXCEPT ![w] =
                         [r EXCEPT !.pc = "dir", !.users = @ \ {ud}, !.ud = ud,
                                   !.listed = DOMAIN workspace[ud]]]
        /\ UNCHANGED <<quota_bytes, used_bytes, workspace, uploads, now, taken, resp, client>>

sweep_dir(w) ==
    LET r == req[w]
    IN  /\ r.pc = "dir"
        /\ IF r.listed = {}
           THEN req' = [req EXCEPT ![w] = [r EXCEPT !.pc = "user"]]
           ELSE \E d \in r.listed :
                  req' = [req EXCEPT ![w] =
                             IF /\ d \in DOMAIN workspace[r.ud]
                                /\ workspace[r.ud][d].meta # <<>>
                             THEN [r EXCEPT !.pc = "open", !.listed = @ \ {d},
                                            !.d = d]
                             ELSE [r EXCEPT !.listed = @ \ {d}]]
        /\ UNCHANGED <<quota_bytes, used_bytes, workspace, uploads, now, taken, resp, client>>

sweep_open(w) ==
    LET r == req[w]
    IN  /\ r.pc = "open"
        /\ IF r.d \notin DOMAIN workspace[r.ud] \/ workspace[r.ud][r.d].meta = <<>>
           THEN /\ req' = [req EXCEPT ![w] = Idle]
                /\ resp' = Response("cleanup", r.username, 500,
                                    "Internal Server Error")
           ELSE /\ req' = [req EXCEPT ![w] =
                              IF r.current_time
                                    - workspace[r.ud][r.d].meta[1].upload_start_time
                                        > retention_seconds
                              THEN [r EXCEPT !.pc = "rmtree"]
                              ELSE [r EXCEPT !.pc = "dir"]]
                /\ UNCHANGED resp
        /\ UNCHANGED <<quota_bytes, used_bytes, workspace, uploads, now, taken, client>>

sweep_rmtree(w) ==
    LET r == req[w]
    IN  /\ r.pc = "rmtree"
        /\ IF r.d \notin DOMAIN workspace[r.ud]
           THEN /\ req' = [req EXCEPT ![w] = Idle]
                /\ resp' = Response("cleanup", r.username, 500,
                                    "Internal Server Error")
                /\ UNCHANGED workspace
           ELSE /\ workspace' = [workspace EXCEPT ![r.ud] = rmtree(@, r.d)]
                /\ req' = [req EXCEPT ![w] =
                              [r EXCEPT !.pc = "dir", !.count = @ + 1]]
                /\ UNCHANGED resp
        /\ UNCHANGED <<quota_bytes, used_bytes, uploads, now, taken, client>>

sweep_end(w) ==
    LET r == req[w]
    IN  /\ r.pc = "user"
        /\ r.users = {}
        /\ req' = [req EXCEPT ![w] = Idle]
        /\ resp' = [Response("cleanup", r.username, 200,
                             IF r.count = 0 THEN "count: 0" ELSE "")
                        EXCEPT !.count = r.count,
                               !.prior = IF resp.op = "cleanup" THEN resp.count ELSE -1]
        /\ UNCHANGED <<quota_bytes, used_bytes, workspace, uploads, now, taken, client>>

\* the worker that runs the sweep
Sweepers == {"w1"}

SweepBegin(users) == \E w \in Sweepers, username \in users : sweep_begin(w, username)
SweepUser == \E w \in Sweepers : sweep_user(w)
SweepDir == \E w \in Sweepers : sweep_dir(w)
SweepOpen == \E w \in Sweepers : sweep_open(w)
SweepRmtree == \E w \in Sweepers : sweep_rmtree(w)
SweepEnd == \E w \in Sweepers : sweep_end(w)

\* the upload of a file of one chunk, with its digest
UploadWhole(users, file_ids) ==
    \E username \in users, file_id \in file_ids, filename \in Filenames,
       category \in CategoryNames, chunk_data \in Payloads :
        upload_chunk(username, file_id, filename, category, 0, 1, chunk_data,
                     Sha256Hex(chunk_data))

\* SpecSweep: one sweep at a time next to the uploads and merges of files of
\* one chunk
NextSweep ==
    \/ UploadWhole(Clients, Sessions)
    \/ MergeUpload(Clients, Sessions)
    \/ Tick
    \/ SweepBegin(Clients)
    \/ SweepUser
    \/ SweepDir
    \/ SweepOpen
    \/ SweepRmtree
    \/ SweepEnd

SpecSweep == Init /\ [][NextSweep]_vars

(***************************************************************************)
(* GET /files (app.py 343-377) and GET /download/<category>/<filename>     *)
(* (app.py 398-410).                                                       *)
(***************************************************************************)
\* the "files" of the listing with no category: category, filename and size
\* of every file under get_user_upload_folder(username)
files_body(upl, username) ==
    LET files == upl[SecureFilename(username)]
    IN  {[category |-> path[1], filename |-> path[2], size_bytes |-> Len(files[path])] :
            path \in DOMAIN files}

list_files(username) ==
    /\ resp' = Response("files", username, 200, "")
    /\ UNCHANGED <<quota_bytes, used_bytes, workspace, uploads, now, req, taken, client>>

\* [code, content]: 404 or the bytes sent by send_from_directory
download_body(upl, username, category, filename) ==
    LET files == upl[SecureFilename(username)]
        path == <<SecureFilename(category), SecureFilename(filename)>>
    IN  IF path \notin DOMAIN files
        THEN [code |-> 404, content |-> <<>>]
        ELSE [code |-> 200, content |-> files[path]]

download_file(username, category, filename) ==
    /\ resp' = LET b == download_body(uploads, username, category, filename)
               IN  Response("download", username, b.code,
                            IF b.code = 404 THEN "File not found" ELSE "")
    /\ UNCHANGED <<quota_bytes, used_bytes, workspace, uploads, now, req, taken, client>>

ListFiles(users) == \E username \in users : list_files(username)

DownloadFile(users) ==
    \E username \in users, category \in CategoryNames, filename \in Filenames :
        download_file(username, category, filename)

\* SpecTenants: every user uploads files of one chunk, asks for the status,
\* merges, lists and downloads
NextTenants ==
    \/ UploadWhole(Usernames, Sessions)
    \/ UploadStatus(Usernames, Sessions)
    \/ MergeUpload(Usernames, Sessions)
    \/ ListFiles(Usernames)
    \/ DownloadFile(Usernames)

SpecTenants == Init /\ [][NextTenants]_vars

(***************************************************************************)
(* A merge whose write of the final file fails (app.py 149-153): the       *)
(* "with open(final_path, 'wb')" block has no handler, so the OSError of a  *)
(* write that fails after `written` bytes leaves the block with the file   *)
(* closed and holding these bytes, shutil.rmtree is not reached and the    *)
(* request ends with a 500.                                                *)
(***************************************************************************)
merge_chunks_write_fails(wsu, files, d, total_chunks, final_filename, category, written) ==
    LET ws0 == get_chunk_directory(wsu, d)
        final_path == <<SecureFilename(category), SecureFilename(final_filename)>>
        content == Concat(ws0[d].chunks, total_chunks)
    IN  [ws |-> ws0,
         files |-> Put(files, final_path, SubSeq(content, 1, written)),
         path |-> final_path]

\* the merges that reach the write, and the byte counts a write can fail after
CanFailAfter(username, file_id) ==
    LET ud == SecureFilename(username)
        d == SecureFilename(file_id)
        ws0 == get_chunk_directory(workspace[ud], d)
        metadata == load_chunk_metadata(ws0, d)
    IN  IF metadata = <<>> THEN {}
        ELSE IF ~ChunksComplete(get_received_chunks(ws0, d), metadata[1].total_chunks)
        THEN {}
        ELSE 0..(Len(Concat(ws0[d].chunks, metadata[1].total_chunks)) - 1)

merge_upload_write_fails(username, file_id, written) ==
    LET ud == SecureFilename(username)
        d == SecureFilename(file_id)
        ws0 == get_chunk_directory(workspace[ud], d)
        metadata == load_chunk_metadata(ws0, d)
        r == merge_chunks_write_fails(ws0, uploads[ud], d, metadata[1].total_chunks,
                                      metadata[1].filename, metadata[1].category,
                                      written)
    IN  /\ written \in CanFailAfter(username, file_id)
        /\ workspace' = [workspace EXCEPT ![ud] = r.ws]
        /\ uploads' = [uploads EXCEPT ![ud] = r.files]
        /\ resp' = Response("merge", username, 500, "Internal Server Error")
        /\ UNCHANGED <<quota_bytes, used_bytes, now, req, taken, client>>

MergeUploadWriteFails(users, file_ids) ==
    \E username \in users, file_id \in file_ids :
      \E written \in CanFailAfter(username, file_id) :
        merge_upload_write_fails(username, file_id, written)

\* SpecFault: an upload and its merge on a disk whose writes can fail in the
\* merge
NextFault ==
    \/ UploadChunk(Clients, Sessions)
    \/ MergeUpload(Clients, Sessions)
    \/ MergeUploadWriteFails(Clients, Sessions)

SpecFault == Init /\ [][NextFault]_vars

(***************************************************************************)
(* ChunkedUploadClient.upload_file (upload_client.py 37-153): one client,  *)
(* one step per HTTP request it sends, the server's handling of the        *)
(* request included.  A request raises requests.RequestException when it   *)
(* does not reach the server or when raise_for_status finds a 4xx or 5xx   *)
(* answer.  "log" is not client state: it records, in order, the requests  *)
(* sent, with the status code of the answer (0 when there was none) and    *)
(* whether raise_for_status let it pass, and the time.sleep calls.         *)
(***************************************************************************)
max_retries == 3
chunk_size == MaxChunkSize
FileSizes == 0..(MaxChunks * chunk_size)

\* total_chunks = (file_size + self.chunk_size - 1) // self.chunk_size
TotalChunks(file_size) == (file_size + chunk_size - 1) \div chunk_size

\* f.seek(chunk_index * self.chunk_size); f.read(self.chunk_size)
ReadChunk(file_size, chunk_index) ==
    LET rest == file_size - chunk_index * chunk_size
    IN  Payload(IF rest < chunk_size THEN rest ELSE chunk_size)

Sent(request, index, code) ==
    [request |-> request, index |-> index, code |-> code,
     ok |-> (code \in 200..299)]
Slept(seconds) == [request |-> "sleep", seconds |-> seconds]

Uploading(username, file_id, filename, category, file_size, received_chunks, log) ==
    [pc |-> "chunks", username |-> username, file_id |-> file_id,
     filename |-> filename, category |-> category, file_size |-> file_size,
     total_chunks |-> TotalChunks(file_size),
     received_chunks |-> received_chunks, chunk_index |-> 0, attempt |-> 0,
     last_exception |-> -1, log |-> log]

\* upload_file up to the loop: _check_resume asks for the status and takes
\* received_chunks from it; [] when the session does not exist or the request
\* raises.
client_upload_file(username, file_id, filename, category, file_size) ==
    LET ud == SecureFilename(username)
        d == SecureFilename(file_id)
        data == status_body(workspace[ud], d)
    IN  /\ client.pc \in {"idle", "done", "failed"}
        /\ \/ /\ workspace' = [workspace EXCEPT ![ud] = get_chunk_directory(@, d)]
              /\ resp' = Response("status", username, 200,
                                  IF data.exists THEN "" ELSE "exists: false")
              /\ client' = Uploading(username, file_id, filename, category, file_size,
                                     IF data.exists THEN data.received_chunks ELSE <<>>,
                                     <<Sent("status", -1, 200)>>)
           \/ /\ client' = Uploading(username, file_id, filename, category, file_size,
                                     <<>>, <<Sent("status", -1, 0)>>)
              /\ UNCHANGED <<workspace, resp>>
        /\ UNCHANGED <<quota_bytes, used_bytes, uploads, now, req, taken>>

\* a retry loop that sleeps after the last attempt as well
RetrySleepsAlways(c, code) ==
    IF c.attempt < max_retries - 1
    THEN [c EXCEPT !.attempt = @ + 1, !.last_exception = code,
                   !.log = @ \o <<Sent("chunk", c.chunk_index, code),
                                  Slept(2 ^ c.attempt)>>]
    ELSE [c EXCEPT !.pc = "failed", !.last_exception = code,
                   !.log = @ \o <<Sent("chunk", c.chunk_index, code),
                                  Slept(2 ^ c.attempt)>>]

\* the client after an attempt of _upload_chunk_with_retry that raised a
\* RequestException, code being the status of the answer, 0 for none:
\* time.sleep(2 ** attempt) and the next attempt, or raise last_exception
\* after the last
Retry(c, code) ==
    IF c.attempt < max_retries - 1
    THEN [c EXCEPT !.attempt = @ + 1, !.last_exception = code,
                   !.log = @ \o <<Sent("chunk", c.chunk_index, code),
                                  Slept(2 ^ c.attempt)>>]
    ELSE [c EXCEPT !.pc = "failed", !.last_exception = code,
                   !.log = Append(@, Sent("chunk", c.chunk_index, code))]

\* a loop body that sends every chunk, received or not
client_chunk_resend_all ==
    /\ client.pc = "chunks"
    /\ client.chunk_index < client.total_chunks
    /\ LET chunk_data == ReadChunk(client.file_size, client.chunk_index)
           o == upload_chunk_outcome(client.username, client.file_id,
                    client.filename, client.category, client.chunk_index,
                    client.total_chunks, chunk_data, Sha256Hex(chunk_data))
       IN  \/ /\ workspace' = o.workspace
              /\ used_bytes' = o.used_bytes
              /\ resp' = o.resp
              /\ client' = IF o.resp.code = 200
                           THEN [client EXCEPT
                                    !.chunk_index = @ + 1, !.attempt = 0,
                                    !.last_exception = -1,
                                    !.log = Append(@, Sent("chunk", client.chunk_index, 200))]
                           ELSE Retry(client, o.resp.code)
           \/ /\ client' = Retry(client, 0)
              /\ UNCHANGED <<workspace, used_bytes, resp>>
    /\ UNCHANGED <<quota_bytes, uploads, now, req, taken>>

\* one pass of the loop body of upload_file: an index status reported is
\* skipped; for another, one attempt of _upload_chunk_with_retry.
client_chunk ==
    /\ client.pc = "chunks"
    /\ client.chunk_index < client.total_chunks
    /\ IF \E k \in 1..Len(client.received_chunks) :
              client.received_chunks[k] = client.chunk_index
       THEN /\ client' = [client EXCEPT !.chunk_index = @ + 1]
            /\ UNCHANGED <<workspace, used_bytes, resp>>
       ELSE LET chunk_data == ReadChunk(client.file_size, client.chunk_index)
                o == upload_chunk_outcome(client.username, client.file_id,
                         client.filename, client.category, client.chunk_index,
                         client.total_chunks, chunk_data, Sha256Hex(chunk_data))
            IN  \/ /\ workspace' = o.workspace
                   /\ used_bytes' = o.used_bytes
                   /\ resp' = o.resp
                   /\ client' = IF o.resp.code = 200
                                THEN [client EXCEPT
                                         !.chunk_index = @ + 1, !.attempt = 0,
                                         !.last_exception = -1,
                                         !.log = Append(@, Sent("chunk", client.chunk_index, 200))]
                                ELSE Retry(client, o.resp.code)
                \/ /\ client' = Retry(client, 0)
                   /\ UNCHANGED <<workspace, used_bytes, resp>>
    /\ UNCHANGED <<quota_bytes, uploads, now, req, taken>>

\* after the loop: _merge_file, once; upload_file returns the answer or
\* raises.
client_merge ==
    /\ client.pc = "chunks"
    /\ client.chunk_index = client.total_chunks
    /\ LET o == merge_upload_outcome(client.username, client.file_id)
       IN  \/ /\ workspace' = o.workspace
              /\ uploads' = o.uploads
              /\ used_bytes' = o.used_bytes
              /\ resp' = o.resp
              /\ client' = [client EXCEPT
                               !.pc = IF o.resp.code = 201 THEN "done" ELSE "failed",
                               !.log = Append(@, Sent("merge", -1, o.resp.code))]
           \/ /\ client' = [client EXCEPT
                               !.pc = "failed",
                               !.log = Append(@, Sent("merge", -1, 0))]
              /\ UNCHANGED <<workspace, uploads, used_bytes, resp>>
    /\ UNCHANGED <<quota_bytes, now, req, taken>>

ClientUploadFile(users, file_ids) ==
    \E username \in users, file_id \in file_ids, filename \in Filenames,
       category \in CategoryNames, file_size \in FileSizes :
        client_upload_file(username, file_id, filename, category, file_size)

ClientChunk == client_chunk

ClientMerge == client_merge

\* chunk requests sent before the client is started, as the partial upload
\* of test_chunked_upload_resume (test.py 232-288)
UploadBefore(users, file_ids) ==
    /\ client.pc = "idle"
    /\ UploadChunk(users, file_ids)

NextClient ==
    \/ ClientUploadFile(Clients, Sessions)
    \/ ClientChunk
    \/ ClientMerge
    \/ UploadBefore(Clients, Sessions)

SpecClient == Init /\ [][NextClient]_vars

(***************************************************************************)
(* SpecRetention: the sessions of two users and the sweep that one of them *)
(* asks for (app.py 334-341).  The users upload files of MaxChunks chunks, *)
(* chunk by chunk in any order, so that a session holds from no chunk (the *)
(* first request was refused for the quota) to all of them.                *)
(***************************************************************************)
Tenants == {"alice", "bob"}

\* the upload of one chunk of a file of MaxChunks chunks, with its digest
UploadPart(users, file_ids) ==
    \E username \in users, file_id \in file_ids, filename \in Filenames,
       category \in CategoryNames, chunk_index \in 0..(MaxChunks - 1),
       chunk_data \in Payloads :
        upload_chunk(username, file_id, filename, category, chunk_index,
                     MaxChunks, chunk_data, Sha256Hex(chunk_data))

NextRetention ==
    \/ UploadPart(Tenants, Sessions)
    \/ MergeUpload(Clients, Sessions)
    \/ CleanupChunks(Clients)
    \/ Tick

SpecRetention == Init /\ [][NextRetention]_vars

(***************************************************************************)
(* Properties.  upload_chunk and merge_upload are the application of        *)
(* upload_chunk_outcome and merge_upload_outcome to the current state, so   *)
(* what a request does is stated of the outcome it has in every reachable   *)
(* state, for every request the actions draw.                               *)
(***************************************************************************)
\* what the claims say of a session, read from the disk
Session(ws, username, file_id) == ws[SecureFilename(username)][SecureFilename(file_id)]
HasSession(ws, username, file_id) ==
    /\ SecureFilename(file_id) \in DOMAIN ws[SecureFilename(username)]
    /\ Session(ws, username, file_id).meta # <<>>
StoredIndices(ws, username, file_id) ==
    IF SecureFilename(file_id) \in DOMAIN ws[SecureFilename(username)]
    THEN DOMAIN Session(ws, username, file_id).chunks ELSE {}
StoredChunks(ws, username, file_id) ==
    IF SecureFilename(file_id) \in DOMAIN ws[SecureFilename(username)]
    THEN Session(ws, username, file_id).chunks ELSE EmptyDir
\* the bytes stored in the chunk files of one user
RECURSIVE StoredBytesIn(_, _)
StoredBytesIn(wsu, D) ==
    IF D = {} THEN 0
    ELSE LET d == CHOOSE x \in D : TRUE
         IN  ChunkBytes(wsu[d]) + StoredBytesIn(wsu, D \ {d})
StoredBytes(ws, username) ==
    StoredBytesIn(ws[SecureFilename(username)], DOMAIN ws[SecureFilename(username)])

\* C1: under every interleaving of the steps of concurrent chunk uploads, the
\* used_bytes of every user stays at or below the user's quota_bytes.
C1_UsedWithinQuota ==
    \A u \in Usernames : used_bytes[u] <= quota_bytes[u]

\* Two uploads raced: both are finished, the chunk files they left hold more
\* bytes than the quota, and used_bytes is within the quota.
C1_Witness ==
    /\ taken >= 2
    /\ \A w \in Workers : req[w].pc = "idle"
    /\ StoredBytes(workspace, "alice") > quota_bytes["alice"]
    /\ used_bytes["alice"] > 0

\* C2: a merge of an existing session succeeds exactly when the indices
\* stored for it are 0 .. total_chunks-1 of its metadata: it fails when one is
\* missing and when one outside this range is stored.
C2_MergeIffExactIndices ==
    \A u \in Clients, f \in Sessions :
        HasSession(workspace, u, f) =>
            (merge_upload_outcome(u, f).resp.code = 201 <=>
                StoredIndices(workspace, u, f)
                    = 0..(Session(workspace, u, f).meta[1].total_chunks - 1))

\* A merge was refused although no index of the session is missing: an index
\* outside the declared range is stored.
C2_Witness ==
    /\ resp.op = "merge" /\ resp.code = 400
    /\ HasSession(workspace, "alice", "../s2")
    /\ LET n == Session(workspace, "alice", "../s2").meta[1].total_chunks
       IN  /\ 0..(n - 1) \subseteq StoredIndices(workspace, "alice", "../s2")
           /\ \E i \in StoredIndices(workspace, "alice", "../s2") : i >= n

\* content holds the n chunks one after the other, chunk 0 first
RECURSIVE OffsetOf(_, _)
OffsetOf(chunks, i) ==
    IF i = 0 THEN 0 ELSE OffsetOf(chunks, i - 1) + Len(chunks[i - 1])
IsAscendingConcat(content, chunks, n) ==
    /\ Len(content) = OffsetOf(chunks, n)
    /\ \A i \in 0..(n - 1) : \A k \in 1..Len(chunks[i]) :
           content[OffsetOf(chunks, i) + k] = chunks[i][k]

\* C3: after a successful merge the file at (category, filename) of the
\* session's metadata holds the stored chunks 0 .. total_chunks-1 one after
\* the other in ascending order, and its size is the sum of their sizes.
C3_ArtifactIsAscendingConcat ==
    \A u \in Clients, f \in Sessions :
        LET o == merge_upload_outcome(u, f)
        IN  o.resp.code = 201 =>
                LET m == Session(workspace, u, f).meta[1]
                    path == <<SecureFilename(m.category), SecureFilename(m.filename)>>
                    chunks == StoredChunks(workspace, u, f)
                    files == o.uploads[SecureFilename(u)]
                IN  /\ path \in DOMAIN files
                    /\ IsAscendingConcat(files[path], chunks, m.total_chunks)
                    /\ Len(files[path]) = SumSizes(chunks, 0..(m.total_chunks - 1))

\* A merge of two chunks of different sizes succeeded.
C3_Witness ==
    /\ resp.op = "merge" /\ resp.code = 201
    /\ <<"general", "a.txt">> \in DOMAIN uploads["alice"]
    /\ uploads["alice"][<<"general", "a.txt">>] = Payload(1) \o Payload(2)

\* C4: right after a successful merge the session is gone: status reports
\* exists = false with no received indices, and neither a chunk file nor the
\* metadata of the session is left.
C4_SessionGoneAfterMerge ==
    \A u \in Clients, f \in Sessions :
        LET o == merge_upload_outcome(u, f)
            status == status_body(o.workspace[SecureFilename(u)], SecureFilename(f))
        IN  o.resp.code = 201 =>
                /\ ~status.exists
                /\ status.received_chunks = <<>>
                /\ ~HasSession(o.workspace, u, f)
                /\ StoredIndices(o.workspace, u, f) = {}

\* A merge succeeded and nothing of the session is on disk.
C4_Witness ==
    /\ resp.op = "merge" /\ resp.code = 201
    /\ "s2" \notin DOMAIN workspace["alice"]
    /\ uploads["alice"] # EmptyDir

\* C5: a chunk whose declared checksum is not the digest of its bytes is
\* refused, with "Checksum mismatch" when its index is valid, and leaves the
\* stored indices, the stored chunks and used_bytes as they were.
C5_ChecksumMismatchChangesNothing ==
    \A u \in Clients, f \in Sessions, fn \in Filenames, c \in CategoryNames,
       i \in 0..(MaxChunks - 1), n \in 1..MaxChunks, data \in Payloads :
      \A cks \in Checksums(data) :
        cks # Sha256Hex(data) =>
            LET o == upload_chunk_outcome(u, f, fn, c, i, n, data, cks)
            IN  /\ o.resp.code = 400
                /\ (i < n => o.resp.error = "Checksum mismatch")
                /\ StoredIndices(o.workspace, u, f) = StoredIndices(workspace, u, f)
                /\ StoredChunks(o.workspace, u, f) = StoredChunks(workspace, u, f)
                /\ o.used_bytes = used_bytes

\* A chunk was refused for its checksum while the session holds a chunk.
C5_Witness ==
    /\ resp.op = "chunk" /\ resp.error = "Checksum mismatch"
    /\ StoredIndices(workspace, "alice", "../s2") # {}
    /\ used_bytes["alice"] > 0

\* C6: an accepted chunk for an index that is already stored replaces the
\* stored chunk and changes used_bytes by its size less the size of the chunk
\* it replaces.
C6_OverwriteChargesDifference ==
    \A u \in Clients, f \in Sessions, fn \in Filenames, c \in CategoryNames,
       i \in 0..(MaxChunks - 1), n \in 1..MaxChunks, data \in Payloads :
      \A cks \in Checksums(data) :
        LET o == upload_chunk_outcome(u, f, fn, c, i, n, data, cks)
        IN  (o.resp.code = 200 /\ i \in StoredIndices(workspace, u, f)) =>
                /\ StoredChunks(o.workspace, u, f)[i] = data
                /\ o.used_bytes[u]
                      = used_bytes[u] + Len(data)
                            - Len(StoredChunks(workspace, u, f)[i])

\* A one-byte chunk was accepted in place of a two-byte chunk.
C6_Witness ==
    /\ resp.op = "chunk" /\ resp.code = 200 /\ resp.replaced = 2
    /\ \E i \in StoredIndices(workspace, "alice", "../s2") :
           StoredChunks(workspace, "alice", "../s2")[i] = Payload(1)
    /\ used_bytes["alice"] = StoredBytes(workspace, "alice")

\* C7 (as claimed; save_chunk tests used_bytes + len(chunk_data) instead): a
\* chunk with a valid index and checksum is refused with "Quota exceeded"
\* exactly when used_bytes plus its size less the size stored at its index
\* is over quota_bytes.
C7_QuotaRefusalByDelta ==
    \A u \in Clients, f \in Sessions, fn \in Filenames, c \in CategoryNames,
       i \in 0..(MaxChunks - 1), n \in 1..MaxChunks, data \in Payloads :
        i < n =>
            LET o == upload_chunk_outcome(u, f, fn, c, i, n, data, Sha256Hex(data))
                prior == IF i \in StoredIndices(workspace, u, f)
                         THEN Len(StoredChunks(workspace, u, f)[i]) ELSE 0
            IN  (o.resp.error = "Quota exceeded") <=>
                    (used_bytes[u] + (Len(data) - prior) > quota_bytes[u])

\* C8: a chunk refused with "Quota exceeded" writes and replaces no chunk
\* file and leaves the stored indices and used_bytes as they were.
C8_QuotaRefusalChangesNothing ==
    \A u \in Clients, f \in Sessions, fn \in Filenames, c \in CategoryNames,
       i \in 0..(MaxChunks - 1), n \in 1..MaxChunks, data \in Payloads :
      \A cks \in Checksums(data) :
        LET o == upload_chunk_outcome(u, f, fn, c, i, n, data, cks)
        IN  o.resp.error = "Quota exceeded" =>
                /\ StoredIndices(o.workspace, u, f) = StoredIndices(workspace, u, f)
                /\ StoredChunks(o.workspace, u, f) = StoredChunks(workspace, u, f)
                /\ o.used_bytes = used_bytes

\* A user with a quota of one byte was refused a chunk and has used_bytes 0:
\* the chunk had two bytes.
C8_Witness ==
    /\ resp.op = "chunk" /\ resp.error = "Quota exceeded"
    /\ quota_bytes["alice"] = 1
    /\ used_bytes["alice"] = 0
    /\ StoredIndices(workspace, "alice", "../s2") = {}

\* the bytes of the finished files of one user
RECURSIVE FileBytesIn(_, _)
FileBytesIn(files, P) ==
    IF P = {} THEN 0
    ELSE LET x == CHOOSE y \in P : TRUE
         IN  Len(files[x]) + FileBytesIn(files, P \ {x})
FileBytes(upl, username) ==
    FileBytesIn(upl[SecureFilename(username)], DOMAIN upl[SecureFilename(username)])

\* C9: a successful merge leaves used_bytes as it was; the final file has the
\* size the chunks were charged with, so that a merge into a file name not
\* yet taken leaves the bytes the user stores, chunks and files together, as
\* they were.
C9_MergeKeepsUsedBytes ==
    \A u \in Clients, f \in Sessions :
        LET o == merge_upload_outcome(u, f)
        IN  o.resp.code = 201 =>
                LET m == Session(workspace, u, f).meta[1]
                    path == <<SecureFilename(m.category), SecureFilename(m.filename)>>
                IN  /\ o.used_bytes = used_bytes
                    /\ Len(o.uploads[SecureFilename(u)][path])
                          = ChunkBytes(Session(workspace, u, f))
                    /\ path \notin DOMAIN uploads[SecureFilename(u)] =>
                          StoredBytes(o.workspace, u) + FileBytes(o.uploads, u)
                              = StoredBytes(workspace, u) + FileBytes(uploads, u)

\* A file of three bytes was uploaded in two chunks and merged, and used_bytes
\* is three.
C9_Witness ==
    /\ resp.op = "merge" /\ resp.code = 201
    /\ FileBytes(uploads, "alice") = 3
    /\ used_bytes["alice"] = 3

\* C10 (as claimed; cleanup_old_chunks does not touch used_bytes): the sweep
\* takes the bytes of the chunks of every session it removes off the
\* used_bytes of the session's user.
C10_SweepReleasesQuota ==
    [][\A caller \in Usernames :
          (resp'.op = "cleanup" /\ cleanup_chunks(caller)) =>
              \A u \in Usernames :
                  used_bytes'[u] = used_bytes[u]
                      - (StoredBytes(workspace, u) - StoredBytes(workspace', u))]_vars

\* the sessions of all users: <<user dir, chunk dir>> with a metadata.json
SessionsOnDisk(ws) ==
    {p \in UserDirs \X ChunkDirs :
        p[2] \in DOMAIN ws[p[1]] /\ ws[p[1]][p[2]].meta # <<>>}
\* the sessions older than the retention window at time t
StaleSessions(ws, t) ==
    {p \in SessionsOnDisk(ws) :
        t - ws[p[1]][p[2]].meta[1].upload_start_time > CHUNK_RETENTION_HOURS * 3600}

\* C11: a sweep removes every stale session and counts each once; a sweep that
\* follows a sweep with no operation in between removes nothing and returns 0.
C11_SweepTwiceRemovesOnce ==
    [][\A caller \in Clients :
          (resp'.op = "cleanup" /\ cleanup_chunks(caller)) =>
              /\ SessionsOnDisk(workspace')
                    = SessionsOnDisk(workspace) \ StaleSessions(workspace, now)
              /\ resp'.count = Cardinality(StaleSessions(workspace, now))
              /\ resp.op = "cleanup" =>
                    (resp'.count = 0 /\ workspace' = workspace)]_vars

\* A sweep returned 0 right after a sweep that removed one session.
C11_Witness ==
    /\ resp.op = "cleanup" /\ resp.count = 0 /\ resp.prior = 1
    /\ SessionsOnDisk(workspace) = {}

\* C12 (as claimed; merge_chunks has no handler around the write): a merge
\* whose write of the final file fails partway leaves no partly written file
\* at the file's path and leaves the session, its metadata and chunks, as it
\* was.
C12_FailedMergeLeavesNoPartialFile ==
    [][\A u \in Clients, f \in Sessions :
        \A written \in CanFailAfter(u, f) :
          (/\ resp'.op = "merge" /\ resp'.code = 500
           /\ merge_upload_write_fails(u, f, written)) =>
              LET m == Session(workspace, u, f).meta[1]
                  path == <<SecureFilename(m.category), SecureFilename(m.filename)>>
                  before == uploads[SecureFilename(u)]
                  after == uploads'[SecureFilename(u)]
              IN  /\ Session(workspace', u, f) = Session(workspace, u, f)
                  /\ \/ path \notin DOMAIN after
                     \/ path \in DOMAIN before /\ after[path] = before[path]]_vars

\* the list holds the elements of S, each once, in ascending order
IsAscendingListOf(list, S) ==
    /\ {list[k] : k \in 1..Len(list)} = S
    /\ \A j, k \in 1..Len(list) : j < k => list[j] < list[k]

\* C13: a merge of a session that lacks an index of 0 .. total_chunks-1 is
\* refused, its error lists exactly the missing indices in ascending order,
\* and it leaves the finished files, the session's metadata and chunks and
\* used_bytes as they were.
C13_IncompleteMergeChangesNothing ==
    \A u \in Clients, f \in Sessions :
        HasSession(workspace, u, f) =>
            LET o == merge_upload_outcome(u, f)
                expected == 0..(Session(workspace, u, f).meta[1].total_chunks - 1)
                lacking == expected \ StoredIndices(workspace, u, f)
            IN  lacking # {} =>
                    /\ o.resp.code = 400
                    /\ o.resp.error = "Missing chunks"
                    /\ IsAscendingListOf(o.missing, lacking)
                    /\ o.uploads = uploads
                    /\ o.workspace = workspace
                    /\ o.used_bytes = used_bytes

\* A merge was refused for a session that holds chunk 1 and lacks chunk 0,
\* while a finished file of the session's name exists.
C13_Witness ==
    /\ resp.op = "merge" /\ resp.code = 400
    /\ HasSession(workspace, "alice", "../s2")
    /\ StoredIndices(workspace, "alice", "../s2") = {1}
    /\ Session(workspace, "alice", "../s2").meta[1].total_chunks = 2
    /\ <<"general", "a.txt">> \in DOMAIN uploads["alice"]

\* what a session declares: the fields of its metadata the requests set
Declared(ws, username, file_id) ==
    LET m == Session(ws, username, file_id).meta[1]
    IN  [total_chunks |-> m.total_chunks, filename |-> m.filename,
         category |-> m.category]

\* C14 (as claimed; two requests can both find no metadata and both write
\* theirs): no step of a chunk upload, however the uploads interleave, changes
\* the total_chunks, filename or category of a session that exists.
C14_MetadataNeverOverwritten ==
    [][\A u \in Clients, f \in Sessions :
          (HasSession(workspace, u, f) /\ HasSession(workspace', u, f)) =>
              Declared(workspace', u, f) = Declared(workspace, u, f)]_vars

\* C15 (as claimed; upload_chunk never compares a request with the metadata
\* on disk): a chunk request to an existing session that declares another
\* total_chunks, filename or category than the session's metadata is refused
\* with a 400 and stores nothing.
C15_DeclarationMismatchRejected ==
    [][\A u \in Clients, f \in Sessions, fn \in Filenames, c \in CategoryNames,
          i \in 0..(MaxChunks - 1), n \in 1..MaxChunks, data \in Payloads :
        \A cks \in Checksums(data) :
          (/\ resp'.op = "chunk"
           /\ HasSession(workspace, u, f)
           /\ [total_chunks |-> n, filename |-> fn, category |-> c]
                  # Declared(workspace, u, f)
           /\ upload_chunk(u, f, fn, c, i, n, data, cks)) =>
              /\ resp'.code = 400
              /\ StoredChunks(workspace', u, f) = StoredChunks(workspace, u, f)]_vars

\* C16 (as claimed; upload_chunk checks the index against the total_chunks of
\* the request, not of the metadata): every chunk index stored for a session
\* lies in 0 .. total_chunks-1 of the session's metadata.
C16_StoredIndicesInRange ==
    \A u \in Clients, f \in Sessions :
        HasSession(workspace, u, f) =>
            StoredIndices(workspace, u, f)
                \subseteq 0..(Session(workspace, u, f).meta[1].total_chunks - 1)

\* the session a running request writes to has no metadata.json: it was
\* merged, or never was
Retired(ws, r) ==
    \/ r.dir \notin DOMAIN ws[SecureFilename(r.username)]
    \/ ws[SecureFilename(r.username)][r.dir].meta = <<>>

\* C17 (as claimed; save_chunk never looks at the metadata and makes the
\* chunk directory anew): the write of a chunk that finds its session retired
\* by a merge fails: the request ends and no chunk file is written.
C17_WriteAfterMergeFails ==
    [][\A w \in Workers :
          (/\ req[w].pc = "write"
           /\ Retired(workspace, req[w])
           /\ chunk_write(w)) =>
              /\ req'[w] = Idle
              /\ workspace' = workspace]_vars

\* C18 (as claimed; the uploads read used_bytes and the old chunk size and
\* write used_bytes back with nothing that makes this one step): when the
\* first two chunk uploads of a user, both for one index of a new session,
\* have run at once and are finished, used_bytes is the value before both, 0,
\* plus the size of the chunk that is stored in the end less the size stored
\* before both, 0.
C18_SameIndexRaceIsSerial ==
    \A u \in Clients, f \in Sessions :
        (/\ taken = 2
         /\ \A w \in Workers : req[w].pc = "idle"
         /\ Cardinality(StoredIndices(workspace, u, f)) <= 1) =>
            used_bytes[u] = ChunkBytes([chunks |-> StoredChunks(workspace, u, f)])

\* C19 (as claimed; shutil.rmtree is not guarded): a sweep that has read the
\* metadata of a stale session and finds the chunk directory gone when it
\* removes it, a merge having retired the session, goes on with the
\* directories left and sends no error.
C19_SweepToleratesMerge ==
    [][\A w \in Sweepers :
          (/\ req[w].pc = "rmtree"
           /\ req[w].d \notin DOMAIN workspace[req[w].ud]
           /\ sweep_rmtree(w)) =>
              /\ req'[w].pc = "dir"
              /\ resp' = resp]_vars

\* C20 (as claimed; two usernames can have one secure_filename): a merge of
\* one user changes for no other user the listing of the user's files or what
\* a download of a (category, filename) returns, so that a file merged by one
\* user is never listed for or sent to another and each user downloads the
\* user's own content.
C20_ArtifactsIsolated ==
    [][\A a \in Usernames :
          (resp'.op = "merge" /\ resp'.user = a /\ resp'.code = 201) =>
              \A b \in Usernames \ {a} :
                  /\ files_body(uploads', b) = files_body(uploads, b)
                  /\ \A c \in CategoryNames, fn \in Filenames :
                        download_body(uploads', b, c, fn)
                            = download_body(uploads, b, c, fn)]_vars

\* C21 (as claimed; two usernames can have one secure_filename): a chunk
\* upload, a status query or a merge of one user leaves the session another
\* user has created under the same file id as it was, metadata, received
\* indices and stored chunks, and leaves the used_bytes of the other user as
\* they were.
C21_SessionsKeyedByTenant ==
    [][\A b \in Usernames :
          (resp'.user = b /\ resp'.op \in {"chunk", "status", "merge"}) =>
              \A a \in Usernames \ {b}, f \in Sessions :
                  (/\ HasSession(workspace, a, f)
                   /\ Session(workspace, a, f).meta[1].username = a) =>
                      /\ HasSession(workspace', a, f)
                      /\ Session(workspace', a, f) = Session(workspace, a, f)
                      /\ used_bytes'[a] = used_bytes[a]]_vars

\* received_chunks of the status of a session
Received(ws, username, file_id) ==
    status_body(ws[SecureFilename(username)], SecureFilename(file_id)).received_chunks

\* C22: the status of an existing session lists the stored indices, each once
\* and in ascending order; a chunk upload that is accepted adds its index to
\* the list, whatever the indices uploaded before, and a chunk upload that is
\* refused for its index or for the quota leaves the list of an existing
\* session as it was.
C22_StatusListsAcceptedIndices ==
    \A u \in Clients, f \in Sessions :
        /\ HasSession(workspace, u, f) =>
              /\ status_body(workspace[SecureFilename(u)], SecureFilename(f)).exists
              /\ IsAscendingListOf(Received(workspace, u, f),
                                   StoredIndices(workspace, u, f))
        /\ \A fn \in Filenames, c \in CategoryNames, i \in 0..(MaxChunks - 1),
              n \in 1..MaxChunks, data \in Payloads :
               LET o == upload_chunk_outcome(u, f, fn, c, i, n, data, Sha256Hex(data))
               IN  /\ o.resp.code = 200 =>
                         /\ HasSession(o.workspace, u, f)
                         /\ IsAscendingListOf(Received(o.workspace, u, f),
                                StoredIndices(workspace, u, f) \cup {i})
                   /\ (o.resp.code = 400 /\ HasSession(workspace, u, f)) =>
                         Received(o.workspace, u, f) = Received(workspace, u, f)

\* The status of a session of two chunks was asked when only chunk 1 was
\* uploaded: the list is <<1>>.
C22_Witness ==
    /\ resp.op = "status" /\ resp.code = 200 /\ resp.error = ""
    /\ HasSession(workspace, "alice", "../s2")
    /\ Session(workspace, "alice", "../s2").meta[1].total_chunks = 2
    /\ Received(workspace, "alice", "../s2") = <<1>>

\* C23: where the user has no session for the file id, the status is
\* exists=false with no received chunk and total_chunks 0, and a status request
\* or a merge request (refused with 404 "Upload not found") leaves the user
\* without a session and leaves the final files and used_bytes as they were.
C23_NoSessionNoEffect ==
    [][\A u \in Clients, f \in Sessions :
          ~HasSession(workspace, u, f) =>
              /\ status_body(workspace[SecureFilename(u)], SecureFilename(f)) =
                     [exists |-> FALSE, received_chunks |-> <<>>,
                      total_chunks |-> 0, complete |-> FALSE]
              /\ merge_upload_outcome(u, f).resp.code = 404
              /\ (now' = now /\ resp'.user = u /\ resp'.op \in {"status", "merge"}) =>
                     /\ resp'.op = "status" =>
                            resp'.code = 200 /\ resp'.error = "exists: false"
                     /\ resp'.op = "merge" =>
                            resp'.code = 404 /\ resp'.error = "Upload not found"
                     /\ ~HasSession(workspace', u, f)
                     /\ StoredIndices(workspace', u, f) = {}
                     /\ uploads' = uploads
                     /\ used_bytes' = used_bytes]_vars

\* A merge was asked for a session that an earlier merge had retired: it was
\* refused with 404, and the final file and the charge of the earlier upload
\* are in place.
C23_Witness ==
    /\ resp.op = "merge" /\ resp.code = 404 /\ resp.error = "Upload not found"
    /\ ~HasSession(workspace, "alice", "../s2")
    /\ uploads["alice"] # EmptyDir
    /\ used_bytes["alice"] > 0

\* Sending again a chunk that is stored, with the index, the bytes and the
\* digest it was accepted with, leaves the chunk directories and used_bytes as
\* they are, whether the second request is accepted or refused.
C24_RetryOfChunkChangesNothing ==
    \A u \in Clients, f \in Sessions, fn \in Filenames, c \in CategoryNames,
       n \in 1..MaxChunks :
        HasSession(workspace, u, f) =>
            \A i \in StoredIndices(workspace, u, f) \cap (0..(n - 1)) :
                LET data == StoredChunks(workspace, u, f)[i]
                    o == upload_chunk_outcome(u, f, fn, c, i, n, data, Sha256Hex(data))
                IN  /\ o.workspace = workspace
                    /\ o.used_bytes = used_bytes

\* the indices a merge of the session reports as missing
Missing(u, f) == merge_upload_outcome(u, f).missing

\* A merge was refused for missing chunks and the next request stores what
\* was missing: a merge asked now succeeds.
C24_RetryOfMergeSucceeds ==
    [][\A u \in Clients, f \in Sessions :
          (/\ resp.op = "merge" /\ resp.code = 400 /\ resp.user = u
           /\ Missing(u, f) # <<>>
           /\ resp'.op = "chunk" /\ resp'.code = 200 /\ resp'.user = u
           /\ \A k \in 1..Len(Missing(u, f)) :
                  Missing(u, f)[k] \in StoredIndices(workspace', u, f)) =>
              (merge_upload_outcome(u, f).resp.code)' = 201]_vars

\* C24 (as claimed; a session that holds an index outside its declared range
\* is refused by every merge): sending an accepted chunk again changes neither
\* the stored chunks, the received indices nor used_bytes, and a merge that was
\* refused for missing chunks succeeds once the missing chunks are stored.
C24_RetriesAreSafe ==
    []C24_RetryOfChunkChangesNothing /\ C24_RetryOfMergeSucceeds

\* the bytes a user is charged with beyond the chunk files and the final
\* files the user stores
Surplus(used, ws, upl, u) == used[u] - StoredBytes(ws, u) - FileBytes(upl, u)

\* C25: a delete of a final file lowers used_bytes by the size of the file.
\* The chunk uploads of a session and its merge into a file name not yet taken
\* charge what they store, so that used_bytes less the bytes stored is the same
\* before the upload, after the merge and after the delete: with the session
\* and the file gone, used_bytes is back at its value before the upload.
C25_DeleteReleasesFileSize ==
    [][\A u \in Clients :
          LET ud == SecureFilename(u)
              gone == DOMAIN uploads[ud] \ DOMAIN uploads'[ud]
              new == DOMAIN uploads'[ud] \ DOMAIN uploads[ud]
          IN  (now' = now /\ resp'.user = u) =>
                /\ (resp'.op = "delete" /\ resp'.code = 200) =>
                      /\ Cardinality(gone) = 1
                      /\ \A path \in gone :
                            used_bytes'[u] = used_bytes[u] - Len(uploads[ud][path])
                      /\ workspace' = workspace
                /\ \/ resp'.op = "chunk"
                   \/ resp'.op = "merge" /\ resp'.code = 201 /\ new # {}
                   \/ resp'.op = "delete"
                   => Surplus(used_bytes', workspace', uploads', u) =
                          Surplus(used_bytes, workspace, uploads, u)]_vars

\* A chunk was uploaded, merged into a new file and the file was deleted:
\* nothing is stored and used_bytes is 0 again.
C25_Witness ==
    /\ resp.op = "delete" /\ resp.code = 200
    /\ ~HasSession(workspace, "alice", "../s2")
    /\ uploads["alice"] = EmptyDir
    /\ used_bytes["alice"] = 0

\* the digest of the bytes written in upper-case hexadecimal digits
UpperHex(data) == [of |-> data, hexcase |-> "upper"]

\* C26 (as claimed; save_chunk compares the digest it computes, which is in
\* lower case, with the declared one character by character): a chunk whose
\* declared checksum is the digest of its bytes in upper-case hexadecimal
\* digits is served as the same chunk with the digest in lower case is: it
\* passes the checksum gate and is accepted wherever that one is.
C26_ChecksumCaseInsensitive ==
    \A u \in Clients, f \in Sessions, fn \in Filenames, c \in CategoryNames,
       i \in 0..(MaxChunks - 1), n \in 1..MaxChunks, data \in Payloads :
        LET lower == upload_chunk_outcome(u, f, fn, c, i, n, data, Sha256Hex(data))
            upper == upload_chunk_outcome(u, f, fn, c, i, n, data, UpperHex(data))
        IN  /\ upper.resp.error # "Checksum mismatch"
            /\ lower.resp.code = 200 => upper.resp.code = 200

\* the stored indices of the session are those its metadata declares
AllStored(ws, u, f) ==
    StoredIndices(ws, u, f) = 0..(Session(ws, u, f).meta[1].total_chunks - 1)

\* C28 (as claimed; both handlers compare the number of stored chunks with a
\* total, and the acknowledgement takes the total of the request): the
\* complete flag of the status of a session, and of the acknowledgement of an
\* accepted chunk, is true exactly when the stored indices are 0 ..
\* total_chunks - 1 of the metadata; a merge asked when the flag is true
\* succeeds.
C28_CompleteMeansMergeable ==
    \A u \in Clients, f \in Sessions :
        /\ HasSession(workspace, u, f) =>
              LET status == status_body(workspace[SecureFilename(u)], SecureFilename(f))
              IN  /\ status.complete <=> AllStored(workspace, u, f)
                  /\ status.complete => merge_upload_outcome(u, f).resp.code = 201
        /\ \A fn \in Filenames, c \in CategoryNames, i \in 0..(MaxChunks - 1),
              n \in 1..MaxChunks, data \in Payloads :
               LET o == upload_chunk_outcome(u, f, fn, c, i, n, data, Sha256Hex(data))
                   ack == chunk_ack(o.workspace[SecureFilename(u)], SecureFilename(f), n)
               IN  o.resp.code = 200 => (ack.complete <=> AllStored(o.workspace, u, f))

\* C29 (as claimed; a merge that replaces a final file and a sweep that
\* removes chunk files leave used_bytes as it was): whatever chunk uploads,
\* merges, deletes and sweeps were served, the used_bytes of a user is the size
\* of the chunk files in the user's sessions plus the size of the user's final
\* files.
C29_LedgerConservation ==
    \A u \in Clients :
        used_bytes[u] = StoredBytes(workspace, u) + FileBytes(uploads, u)

\* C30 (as claimed; upload_chunk writes the metadata before save_chunk checks
\* the checksum and the quota): a chunk request that is refused where the user
\* has no session for the file id leaves the user without one: the status is
\* still exists=false, and no total_chunks, filename or category is recorded
\* for the requests to come.
C30_RefusedFirstChunkLeavesNoSession ==
    \A u \in Clients, f \in Sessions, fn \in Filenames, c \in CategoryNames,
       i \in 0..(MaxChunks - 1), n \in 1..MaxChunks, data \in Payloads :
      \A cks \in Checksums(data) :
        LET o == upload_chunk_outcome(u, f, fn, c, i, n, data, cks)
        IN  (~HasSession(workspace, u, f) /\ o.resp.code = 400) =>
                /\ ~HasSession(o.workspace, u, f)
                /\ ~status_body(o.workspace[SecureFilename(u)], SecureFilename(f)).exists

\* the positions of the log that hold a request of one kind
Requests(kind) == {k \in 1..Len(client.log) : client.log[k].request = kind}
\* the positions of the log that hold a chunk request for index i
ChunkRequests(i) == {k \in Requests("chunk") : client.log[k].index = i}
Reported(i) ==
    \E k \in 1..Len(client.received_chunks) : client.received_chunks[k] = i
Accepted(i) == \E k \in ChunkRequests(i) : client.log[k].ok

\* C27: upload_file asks for the status first and once; it sends chunk
\* requests in ascending order of the index, for the indices of
\* 0 .. total_chunks - 1 that the status did not report and for no other, at
\* most max_retries for one index, and goes on to the next index only when a
\* request was accepted; it asks for the merge at most once, as its last
\* request, when every index was reported by the status or accepted; when the
\* max_retries requests of a chunk all fail it stops and asks for no merge.
C27_ClientResumes ==
    client.pc # "idle" =>
        /\ Requests("status") = {1}
        /\ \A k \in Requests("chunk") :
              /\ client.log[k].index \in 0..(client.total_chunks - 1)
              /\ ~Reported(client.log[k].index)
              /\ \A l \in Requests("chunk") :
                    k < l => /\ client.log[k].index <= client.log[l].index
                             /\ (client.log[k].index < client.log[l].index
                                    => Accepted(client.log[k].index))
                             /\ (client.log[k].index = client.log[l].index
                                    => ~client.log[k].ok)
        /\ \A i \in 0..(client.total_chunks - 1) :
              /\ Cardinality(ChunkRequests(i)) <= max_retries
              /\ i < client.chunk_index =>
                    (Reported(i) <=> ChunkRequests(i) = {})
              /\ (/\ Cardinality(ChunkRequests(i)) = max_retries
                  /\ ~Accepted(i)) =>
                    /\ client.pc = "failed"
                    /\ Requests("merge") = {}
        /\ Cardinality(Requests("merge")) <= 1
        /\ Requests("merge") # {} =>
              /\ Requests("merge") = {Len(client.log)}
              /\ client.pc \in {"done", "failed"}
              /\ \A i \in 0..(client.total_chunks - 1) :
                    Reported(i) \/ Accepted(i)
        /\ client.pc = "done" => Requests("merge") # {}

\* An upload of two chunks was resumed: the status reported chunk 0, the
\* client sent chunk 1 alone, and the merge it asked for succeeded.
C27_Witness ==
    /\ client.pc = "done"
    /\ client.total_chunks = 2
    /\ client.received_chunks = <<0>>
    /\ client.log = <<Sent("status", -1, 200), Sent("chunk", 1, 200),
                      Sent("merge", -1, 201)>>
    /\ resp.op = "merge" /\ resp.code = 201

\* the bytes are a part of one of the final files of the user directory
PartOfArtifact(upl, ud, data) ==
    \E path \in DOMAIN upl[ud] :
        \E k \in 0..(Len(upl[ud][path]) - Len(data)) :
            SubSeq(upl[ud][path], k + 1, k + Len(data)) = data

\* C31 (as claimed; nothing makes a merge wait for the chunk uploads of its
\* session): when a chunk upload that ran at once with a merge of its session
\* commits its charge and is acknowledged, and the chunk file it wrote is on
\* disk, the file is in a session that has its metadata, so that the status
\* lists its index, or the bytes are a part of a final file of the user; they
\* are not left, charged, where no status and no merge finds them.
C31_NoAcceptedWriteLost ==
    [][\A w \in Workers :
          LET r == req[w]
              ud == SecureFilename(r.username)
          IN  (/\ r.pc = "commit"
               /\ req'[w] = Idle
               /\ r.dir \in DOMAIN workspace'[ud]
               /\ r.chunk_index \in DOMAIN workspace'[ud][r.dir].chunks
               /\ workspace'[ud][r.dir].chunks[r.chunk_index] = r.chunk_data) =>
                  \/ workspace'[ud][r.dir].meta # <<>>
                  \/ PartOfArtifact(uploads', ud, r.chunk_data)]_vars

\* the age of a session at time t
Age(ws, p, t) == t - ws[p[1]][p[2]].meta[1].upload_start_time

\* C32: a sweep removes a session exactly when its upload_start_time is more
\* than CHUNK_RETENTION_HOURS before the time of the sweep, whatever chunks it
\* holds and whichever user it belongs to; it leaves the other sessions, their
\* chunks and metadata, and the final files of every user as they were, makes
\* no session, and returns the number of sessions it removed.
C32_SweepRemovesExactlyTheExpired ==
    [][resp'.op = "cleanup" =>
          /\ \A p \in SessionsOnDisk(workspace) :
                /\ p \notin SessionsOnDisk(workspace') <=>
                      Age(workspace, p, now) > CHUNK_RETENTION_HOURS * 3600
                /\ p \in SessionsOnDisk(workspace') =>
                      workspace'[p[1]][p[2]] = workspace[p[1]][p[2]]
          /\ SessionsOnDisk(workspace') \subseteq SessionsOnDisk(workspace)
          /\ uploads' = uploads
          /\ resp'.count = Cardinality(SessionsOnDisk(workspace)
                                           \ SessionsOnDisk(workspace'))]_vars

\* alice asked for a sweep: it removed the session of bob, which was older
\* than the window, and kept hers, which holds a chunk and is as old as the
\* window exactly.
C32_Witness ==
    /\ resp.op = "cleanup" /\ resp.user = "alice" /\ resp.count = 1
    /\ SessionsOnDisk(workspace) = {<<"alice", "s2">>}
    /\ Age(workspace, <<"alice", "s2">>, now) = CHUNK_RETENTION_HOURS * 3600
    /\ StoredIndices(workspace, "alice", "../s2") # {}

\* the attempts made for the index of the chunk request at position k of the
\* log before that request
AttemptsBefore(k) ==
    Cardinality({l \in ChunkRequests(client.log[k].index) : l < k})

\* C33: _upload_chunk_with_retry sends at most max_retries requests for a
\* chunk and none after one that was accepted; a request that fails, because
\* no answer came or because the server refused it with a 4xx, is followed by
\* a sleep of 2^attempt seconds and the next attempt when it is not the last,
\* and when it is the last by no sleep: the method raises that last failure
\* and upload_file ends.  Nothing else sleeps.
C33_RetryIsBounded ==
    client.pc # "idle" =>
        /\ \A k \in Requests("chunk") :
              LET e == client.log[k]
                  a == AttemptsBefore(k)
                  end == Len(client.log)
              IN  /\ a < max_retries
                  /\ \A l \in ChunkRequests(e.index) : l < k => ~client.log[l].ok
                  /\ e.ok => (k = end \/ client.log[k + 1].request # "sleep")
                  /\ ~e.ok => e.code \in {0} \cup (400..599)
                  /\ (~e.ok /\ a < max_retries - 1) =>
                        /\ k < end
                        /\ client.log[k + 1] = Slept(2 ^ a)
                        /\ k + 1 < end =>
                              /\ client.log[k + 2].request = "chunk"
                              /\ client.log[k + 2].index = e.index
                  /\ (~e.ok /\ a = max_retries - 1) =>
                        /\ k = end
                        /\ client.pc = "failed"
                        /\ client.last_exception = e.code
        /\ \A k \in Requests("sleep") :
              /\ k > 1
              /\ client.log[k - 1].request = "chunk"
              /\ ~client.log[k - 1].ok

\* The three attempts of chunk 0 failed, the first and the last refused by the
\* server with 400 and the second without an answer: the client slept 1 and 2
\* seconds between them, raised the last failure and asked for no merge.
C33_Witness ==
    /\ client.pc = "failed"
    /\ client.last_exception = 400
    /\ client.log = <<Sent("status", -1, 200), Sent("chunk", 0, 400), Slept(1),
                      Sent("chunk", 0, 0), Slept(2), Sent("chunk", 0, 400)>>

\* C34: in every reachable state, however chunk uploads, overwrites, merges
\* and deletions of final files interleave, the used_bytes of every tenant is
\* non-negative.
C34_UsedBytesNonNegative ==
    \A username \in Usernames : used_bytes[username] >= 0

====
